---- MODULE Spec2Model ----
(***************************************************************************)
(* Verification model of docauto / docugen:                                *)
(*   - DocTransformer (docugen/transformers.py): the CST walk that         *)
(*     decides per declaration whether to generate, and splices the        *)
(*     docstring into the body;                                            *)
(*   - the response sanitizer chain (docugen/generator.py, utils.py);      *)
(*   - DocAutoGenerator (docauto/generator.py): prompt, token budget and   *)
(*     provider call.                                                      *)
(*   - DocAutoCLI._process_files and the shutdown handler (cli.py);        *)
(*   - DocTransformer.format_docstring on texts;                           *)
(*   - DocuGen.generate (docugen/generator.py).                            *)
(* The specifications of the module: Spec (the walk), SpecSan (the         *)
(* sanitizer chain), SpecGen (DocAutoGenerator), SpecCli (the file loop),  *)
(* SpecFmt (format_docstring) and SpecDocu (DocuGen.generate).             *)
(***************************************************************************)
EXTENDS Integers, Sequences, FiniteSets, TLC

VARIABLES
    \* ---- DocTransformer walk -------------------------------------------
    parent,          \* parent[n]: enclosing declaration of n (0 = module)
    kind,            \* kind[n] \in {"ClassDef", "FunctionDef"}
    orig,            \* orig[n]: body of declaration n as parsed
    tree,            \* tree[n]: body of declaration n in the tree being built
    overwrite,       \* DocTransformer.overwrite
    phase,           \* phase[n] \in {"unvisited", "open", "closed"}
    stack,           \* declarations entered and not yet left (innermost last)
    current_class,   \* DocTransformer.current_class (0 = None)
    tracked_object,  \* ProgressTracker log for 'current_file'
    generate_calls,  \* calls made to generator.generate, in order
    generated,       \* generated[n]: how the generation attempted for n ended
    \* ---- sanitizer chain (the loop of DocuGen.generate) -----------------
    sanitizers,      \* llm_response_sanitizers of the generator
    san_input,       \* the raw response the chain was started on
    llm_response,    \* the text after the steps run so far
    san_idx,         \* index of the next sanitizer to call
    san_error,       \* exception that ended the chain ("" = none)
    san_trace,       \* one entry per call_sanitizer call, in order
    \* ---- DocAutoGenerator ----------------------------------------------
    max_context,         \* config.max_context
    prompt_length_limit, \* config.prompt_length_limit
    gen_pc,              \* "idle", or "awaiting" the provider
    requests,            \* one entry per call of generate
    provider_calls,      \* requests sent to the provider, in order
    \* ---- DocAutoCLI file loop -------------------------------------------
    shutdown_requested,  \* BaseCLI._shutdown_requested
    cli_pc,              \* position of _process_files
    cli_path,            \* index of the path the loop is at
    file_state,          \* file_state[f]: how far process_file got with f
    started_with_flag,   \* files whose process_file began with the flag set
    signals,             \* SIGINT / SIGTERM delivered so far
    processed,           \* local processed of _process_files
    updated,             \* local updated of _process_files
    \* ---- DocTransformer.format_docstring ---------------------------------
    fmt_docstring,       \* the docstring text handed to format_docstring
    fmt_node,            \* body of the declaration being documented
    fmt_overwrite,       \* DocTransformer.overwrite
    fmt_result,          \* the text format_docstring returned
    fmt_done,            \* format_docstring has returned
    \* ---- DocuGen.generate ------------------------------------------------
    docu_max_context,    \* config['max_context']
    docu_chain,          \* llm_response_sanitizers of the DocuGen instance
    docu_constraints,    \* config['constraints']
    docu_pc,             \* "idle", "awaiting" the provider, "sanitizing"
    docu_requests,       \* one entry per call of DocuGen.generate
    docu_provider_calls, \* prompts sent to chat.completions.create
    \* ---- DocAutoCLI.run up to the file loop -----------------------------
    cfg_args,            \* what parse_args returns for the command line
    cfg_pc,              \* position of run
    cfg_config,          \* what resolve_config returned
    cfg_error            \* the exception run caught

walkVars == <<parent, kind, orig, tree, overwrite, phase, stack,
              current_class, tracked_object, generate_calls, generated>>

sanVars == <<sanitizers, san_input, llm_response, san_idx, san_error,
             san_trace>>

genVars == <<max_context, prompt_length_limit, gen_pc, requests,
             provider_calls>>

cliVars == <<shutdown_requested, cli_pc, cli_path, file_state,
             started_with_flag, signals, processed, updated>>

fmtVars == <<fmt_docstring, fmt_node, fmt_overwrite, fmt_result, fmt_done>>

docuVars == <<docu_max_context, docu_chain, docu_constraints, docu_pc,
              docu_requests, docu_provider_calls>>

cfgVars == <<cfg_args, cfg_pc, cfg_config, cfg_error>>

vars == <<walkVars, sanVars, genVars, cliVars, fmtVars, docuVars, cfgVars>>

-----------------------------------------------------------------------------
\* Bounds
NumDecls == 3
MaxTextLen == 2
MaxRequests == 2
TokenSlack == 1
NumFiles == 3
MaxSignals == 2
MaxDocLen == 4
MaxDocuRequests == 1

Decls == 1..NumDecls

-----------------------------------------------------------------------------
\* Text.  A str is a sequence of one-character strings.

LowerCase ==
    <<"a", "b", "c", "d", "e", "f", "g", "h", "i", "j", "k", "l", "m",
      "n", "o", "p", "q", "r", "s", "t", "u", "v", "w", "x", "y", "z">>

UpperCase ==
    <<"A", "B", "C", "D", "E", "F", "G", "H", "I", "J", "K", "L", "M",
      "N", "O", "P", "Q", "R", "S", "T", "U", "V", "W", "X", "Y", "Z">>

Digits == {"0", "1", "2", "3", "4", "5", "6", "7", "8", "9"}

Range(f) == {f[i] : i \in DOMAIN f}

\* the word and whitespace classes of Python re, over the characters used here
IsWord(c) == c \in Range(LowerCase) \cup Range(UpperCase) \cup Digits \cup {"_"}

IsSpace(c) == c \in {" ", "\n", "\t", "\r", "\f"}

Min(S) == CHOOSE x \in S : \A y \in S : x <= y

Max(S) == CHOOSE x \in S : \A y \in S : y <= x

StartsWith(s, p, lit) ==
    /\ p >= 1
    /\ p + Len(lit) - 1 <= Len(s)
    /\ SubSeq(s, p, p + Len(lit) - 1) = lit

\* line start under re.MULTILINE
AtLineStart(s, p) == p = 1 \/ s[p - 1] = "\n"

\* where a greedy run of word (whitespace) characters that starts at i
\* stops: the first index not in the class
RECURSIVE SkipWord(_, _)
SkipWord(s, i) ==
    IF i <= Len(s) /\ IsWord(s[i]) THEN SkipWord(s, i + 1) ELSE i

RECURSIVE SkipSpace(_, _)
SkipSpace(s, i) ==
    IF i <= Len(s) /\ IsSpace(s[i]) THEN SkipSpace(s, i + 1) ELSE i

RECURSIVE lstrip(_)
lstrip(s) == IF s # <<>> /\ IsSpace(Head(s)) THEN lstrip(Tail(s)) ELSE s

RECURSIVE rstrip(_)
rstrip(s) ==
    IF s # <<>> /\ IsSpace(s[Len(s)])
    THEN rstrip(SubSeq(s, 1, Len(s) - 1)) ELSE s

strip(s) == rstrip(lstrip(s))

upper(s) ==
    [i \in 1..Len(s) |->
        IF s[i] \in Range(LowerCase)
        THEN UpperCase[CHOOSE j \in 1..26 : LowerCase[j] = s[i]]
        ELSE s[i]]

\* the grave accent, which a TLA+ string cannot hold
BT == "backtick"

Fence == <<BT, BT, BT>>

\* Match at p of the first alternative of the pattern of
\* remove_markdown_fences (line start, fence, optional word, whitespace,
\* newline): the index after the match, 0 for no match.  The greedy
\* whitespace run gives back characters until a newline follows, so the
\* match ends with the last newline of the run.
OpenFenceEnd(s, p) ==
    IF AtLineStart(s, p) /\ StartsWith(s, p, Fence)
    THEN LET w == SkipWord(s, p + 3)
             e == SkipSpace(s, w)
             nl == {j \in w..(e - 1) : s[j] = "\n"}
         IN  IF nl = {} THEN 0 ELSE Max(nl) + 1
    ELSE 0

\* Match at p of the second alternative (newline, fence, optional word,
\* whitespace, line end): a line end is the end of the text or the place
\* before a newline.
CloseFenceEnd(s, p) ==
    IF s[p] = "\n" /\ StartsWith(s, p + 1, Fence)
    THEN LET w == SkipWord(s, p + 4)
             e == SkipSpace(s, w)
             nl == {j \in w..(e - 1) : s[j] = "\n"}
         IN  IF e > Len(s) THEN Len(s) + 1
             ELSE IF nl = {} THEN 0 ELSE Max(nl)
    ELSE 0

\* re.sub with an empty replacement: every non-overlapping match, left to
\* right
RECURSIVE SubFences(_, _)
SubFences(s, p) ==
    IF p > Len(s) THEN <<>>
    ELSE IF OpenFenceEnd(s, p) # 0 THEN SubFences(s, OpenFenceEnd(s, p))
    ELSE IF CloseFenceEnd(s, p) # 0 THEN SubFences(s, CloseFenceEnd(s, p))
    ELSE <<s[p]>> \o SubFences(s, p + 1)

remove_markdown_fences(response) == SubFences(response, 1)

\* Match at p of the pattern of remove_function_definition (line start, def,
\* whitespace, a name, a parenthesised list without a closing parenthesis
\* inside, a colon): the index after the match, 0 for no match.
DefinitionEnd(s, p) ==
    IF AtLineStart(s, p) /\ StartsWith(s, p, <<"d", "e", "f">>)
    THEN LET a == SkipSpace(s, p + 3)
             w == SkipWord(s, a)
             closers == {j \in (w + 1)..Len(s) : s[j] = ")"}
         IN  IF /\ a > p + 3
                /\ w > a
                /\ w <= Len(s)
                /\ s[w] = "("
                /\ closers # {}
                /\ Min(closers) + 1 <= Len(s)
                /\ s[Min(closers) + 1] = ":"
             THEN Min(closers) + 2
             ELSE 0
    ELSE 0

\* count=1: only the first match is removed
remove_function_definition(response) ==
    LET starts == {p \in 1..Len(response) : DefinitionEnd(response, p) # 0}
    IN  IF starts = {} THEN response
        ELSE SubSeq(response, 1, Min(starts) - 1)
                 \o SubSeq(response, DefinitionEnd(response, Min(starts)),
                           Len(response))

Triple(q) == <<q, q, q>>

ClosingQuotes(s, p, q) ==
    {e \in (p + 3)..Len(s) : StartsWith(s, e, Triple(q))}

\* pattern.search: the leftmost opening delimiter that has a closing one,
\* and, the body being matched lazily, the nearest closing one
extract_docstring_content(response) ==
    LET opens == {p \in 1..Len(response) :
                     \E q \in {"'", "\""} :
                        /\ StartsWith(response, p, Triple(q))
                        /\ ClosingQuotes(response, p, q) # {}}
    IN  IF opens = {} THEN response
        ELSE LET p == Min(opens)
                 e == Min(ClosingQuotes(response, p, response[p]))
             IN  SubSeq(response, p + 3, e - 1)

-----------------------------------------------------------------------------
\* Sample responses: the inputs of tests/generator/test_generator_sanitizers.py
\* and two responses that quote the docstring

ChainOrderInput ==
    <<BT, BT, BT, "p", "l", "a", "i", "n", "t", "e", "x", "t", "\n", " ",
      " ", " ", " ", "d", "e", "f", " ", "t", "e", "s", "t", "(", ")", ":",
      "\n", " ", " ", " ", " ", " ", " ", " ", " ", "p", "a", "s", "s",
      "\n", " ", " ", " ", " ", "T", "e", "s", "t", " ", "c", "o", "n",
      "t", "e", "n", "t", "\n", BT, BT, BT>>

TestContent ==
    <<"T", "e", "s", "t", " ", "c", "o", "n", "t", "e", "n", "t">>

FencedPython ==
    <<BT, BT, BT, "p", "y", "t", "h", "o", "n", "\n", "t", "e", "s", "t",
      "\n", BT, BT, BT>>

LeakedDefinition ==
    <<"d", "e", "f", " ", "t", "e", "s", "t", "(", ")", ":", "\n", " ",
      " ", " ", " ", "p", "a", "s", "s", "\n", "a", "c", "t", "u", "a",
      "l", " ", "c", "o", "n", "t", "e", "n", "t">>

FencedPlaintext ==
    <<BT, BT, BT, "p", "l", "a", "i", "n", "t", "e", "x", "t", "\n", "t",
      "e", "s", "t", " ", "c", "o", "n", "t", "e", "n", "t", "\n", BT, BT,
      BT>>

WhitespaceOnly ==
    <<" ", " ", " ", "\n", " ", " ", " ">>

PaddedText ==
    <<" ", " ", "t", "e", "s", "t", " ", " ">>

QuotedDocstring ==
    <<BT, BT, BT, "p", "y", "t", "h", "o", "n", "\n", "d", "e", "f", " ",
      "f", "(", "a", ",", " ", "b", ")", ":", "\n", " ", " ", " ", " ",
      "\"", "\"", "\"", "S", "u", "m", ".", "\"", "\"", "\"", "\n", BT, BT,
      BT, " ", " ", "\n">>

SingleQuoted ==
    <<"'", "'", "'", "O", "n", "e", "'", "'", "'", " ", "a", "n", "d", " ",
      "\"", "\"", "\"", "T", "w", "o", "\"", "\"", "\"">>

SampleTexts ==
    {ChainOrderInput,
     TestContent,
     FencedPython,
     LeakedDefinition,
     FencedPlaintext,
     WhitespaceOnly,
     PaddedText,
     QuotedDocstring,
     SingleQuoted}

-----------------------------------------------------------------------------
\* The sanitizer chain

\* Result of calling a function on a text: the exception raised ("" for a
\* normal return) and the value returned.
Returned(v) == [raised |-> "", val |-> v]
Raised(e) == [raised |-> e, val |-> <<>>]

\* The functions used as sanitizers: the five of llm_response_sanitizers and
\* the custom ones of the tests.
ApplySanitizerFunction(fn, text) ==
    CASE fn = "str.strip" -> Returned(strip(text))
      [] fn = "remove_markdown_fences" -> Returned(remove_markdown_fences(text))
      [] fn = "remove_function_definition" ->
             Returned(remove_function_definition(text))
      [] fn = "extract_docstring_content" ->
             Returned(extract_docstring_content(text))
      [] fn = "custom_sanitizer" -> Returned(upper(text))
      [] fn = "x.undefined_attribute" -> Raised("AttributeError")
      [] fn = "1 / 0" -> Raised("ZeroDivisionError")

\* A chain entry is a callable or a dict; a dict may lack either key.
Callable(fn) == [form |-> "callable", fn |-> fn, fail_silent |-> "absent"]
Dict(fn, fs) == [form |-> "dict", fn |-> fn, fail_silent |-> fs]
NoSanitizerKey == ""

llm_response_sanitizers ==
    << Callable("str.strip"),
       Dict("remove_markdown_fences", "True"),
       Dict("remove_function_definition", "True"),
       Callable("extract_docstring_content"),
       Callable("str.strip") >>

\* mutant: fail_silent is ignored
call_sanitizer_strict(sanitizer, text) ==
    IF sanitizer.form = "callable"
    THEN ApplySanitizerFunction(sanitizer.fn, text)
    ELSE IF sanitizer.fn = NoSanitizerKey
    THEN Raised("ValueError: Missing 'sanitizer' key")
    ELSE LET r == ApplySanitizerFunction(sanitizer.fn, text)
         IN  IF r.raised = "" THEN r
             ELSE Raised("ValueError: Sanitizer failed")

call_sanitizer(sanitizer, text) ==
    IF sanitizer.form = "callable"
    THEN ApplySanitizerFunction(sanitizer.fn, text)
    ELSE IF sanitizer.fn = NoSanitizerKey
    THEN Raised("ValueError: Missing 'sanitizer' key")
    ELSE LET fail_silent ==
                 IF sanitizer.fail_silent = "absent" THEN FALSE
                 ELSE sanitizer.fail_silent = "True"
             r == ApplySanitizerFunction(sanitizer.fn, text)
         IN  IF r.raised = "" THEN r
             ELSE IF fail_silent THEN Returned(text)
             ELSE Raised("ValueError: Sanitizer failed")

\* Steps a caller adds to the chain
CustomSteps ==
    {Callable("custom_sanitizer"), Callable("1 / 0"),
     Dict("x.undefined_attribute", "True"),
     Dict("x.undefined_attribute", "False"),
     Dict("1 / 0", "True"), Dict("1 / 0", "False"), Dict("1 / 0", "absent"),
     Dict("custom_sanitizer", "absent"), Dict(NoSanitizerKey, "True")}

InsertAt(s, i, x) == SubSeq(s, 1, i) \o <<x>> \o SubSeq(s, i + 1, Len(s))

Chains ==
    {llm_response_sanitizers}
        \cup {InsertAt(llm_response_sanitizers, i, c) :
                 i \in 0..Len(llm_response_sanitizers), c \in CustomSteps}

Alphabet == {BT, "\n", " ", "a", "\""}

RECURSIVE TextsOfLength(_)
TextsOfLength(n) ==
    IF n = 0 THEN {<<>>}
    ELSE {Append(t, c) : t \in TextsOfLength(n - 1), c \in Alphabet}

Texts == SampleTexts \cup UNION {TextsOfLength(n) : n \in 0..MaxTextLen}

SanIdle ==
    /\ sanitizers = <<>>
    /\ san_input = <<>>
    /\ llm_response = <<>>
    /\ san_idx = 1
    /\ san_error = ""
    /\ san_trace = <<>>

\* One iteration of  for sanitizer in self.get_response_sanitizers()
sanitize ==
    /\ san_error = ""
    /\ san_idx <= Len(sanitizers)
    /\ LET r == call_sanitizer(sanitizers[san_idx], llm_response)
       IN  /\ san_trace' = Append(san_trace,
                                  [step |-> san_idx, inp |-> llm_response,
                                   raised |-> r.raised, out |-> r.val])
           /\ IF r.raised = ""
              THEN /\ llm_response' = r.val
                   /\ san_idx' = san_idx + 1
                   /\ UNCHANGED san_error
              ELSE /\ san_error' = r.raised
                   /\ UNCHANGED <<llm_response, san_idx>>
    /\ UNCHANGED <<sanitizers, san_input>>
    /\ UNCHANGED <<walkVars, genVars, cliVars, fmtVars, docuVars, cfgVars>>

SanDone == san_error = "" /\ san_idx > Len(sanitizers)

-----------------------------------------------------------------------------
\* DocAutoGenerator

min_response_context == 5000

\* Values of config.max_context: the least one GenerationConfig accepts, the
\* ones around the response reserve, and those of the tests and presets
MaxContexts == {1, 1000, 5000, 5001, 10000, 16384}

PromptLengthLimits == {10000, 24}

\* Token counts the tokenizer may report for the system and user text
TokenCounts(mc) ==
    {t \in {1, mc + 1}
             \cup {mc - min_response_context + d : d \in -TokenSlack..TokenSlack} :
        t >= 1}

Str(v) == [type |-> "str", val |-> v]
NotStr == [type |-> "int", val |-> <<>>]
None == [type |-> "NoneType", val |-> <<>>]

FencePython ==
    <<BT, BT, BT, "p", "y", "t", "h", "o", "n">>

AdditionalContext ==
    <<"A", "d", "d", "i", "t", "i", "o", "n", "a", "l", " ", "c", "o", "n",
      "t", "e", "x", "t", ":", " ">>

SourceTest ==
    <<"d", "e", "f", " ", "t", "e", "s", "t", "(", ")", ":", " ", "p", "a",
      "s", "s">>

SourcePadded ==
    <<"\n", "d", "e", "f", " ", "f", "(", ")", ":", "\n", " ", " ", " ",
      " ", "r", "e", "t", "u", "r", "n", " ", "1", "\n", " ", " ">>

ContextTest ==
    <<"T", "e", "s", "t", " ", "c", "o", "n", "t", "e", "x", "t">>

Sources == {NotStr, Str(<<>>), Str(SourceTest), Str(SourcePadded)}

Contexts == {None, Str(<<>>), Str(ContextTest)}

RECURSIVE Join(_)
Join(lines) ==
    IF Len(lines) = 0 THEN <<>>
    ELSE IF Len(lines) = 1 THEN lines[1]
    ELSE lines[1] \o <<"\n">> \o Join(Tail(lines))

\* s[:limit]
Prefix(s, limit) ==
    IF limit >= 0 THEN SubSeq(s, 1, IF limit < Len(s) THEN limit ELSE Len(s))
    ELSE SubSeq(s, 1, IF Len(s) + limit > 0 THEN Len(s) + limit ELSE 0)

\* mutant: the context line is never added
prompt_lines_no_context(source, context) ==
    <<FencePython, strip(source), Fence>>

prompt_lines(source, context) ==
    <<FencePython, strip(source), Fence>>
        \o (IF context.type = "str" /\ context.val # <<>>
            THEN <<AdditionalContext \o context.val>> ELSE <<>>)

\* mutant: the joined lines are returned whole
build_prompt_untrimmed(source, context, limit) ==
    Join(prompt_lines(source, context))

build_prompt(source, context, limit) ==
    Prefix(Join(prompt_lines(source, context)), limit)

\* len(trimmed_prompt) < len(prompt): the warning is logged
prompt_was_trimmed(source, context, limit) ==
    Len(build_prompt(source, context, limit))
        < Len(Join(prompt_lines(source, context)))

\* mutant: the whole context is the budget of the prompt
prompt_budget_whole(mc) == mc

\* self.config.max_context - self.min_response_context
prompt_budget(mc) == mc - min_response_context

\* mutant: the response reserve is left out of the check
exceeds_max_context_no_reserve(tokens, mc) == tokens > mc

exceeds_max_context(tokens, mc) == tokens > prompt_budget(mc)

\* mutant: the whole context is passed as max_tokens
remaining_tokens_count_whole(tokens, mc) == mc

remaining_tokens_count(tokens, mc) == mc - tokens

GenIdle ==
    /\ max_context = 16384
    /\ prompt_length_limit = 10000
    /\ gen_pc = "idle"
    /\ requests = <<>>
    /\ provider_calls = <<>>

Request(source, context, prompt, tokens, result) ==
    [source |-> source, context |-> context, prompt |-> prompt,
     tokens |-> tokens, result |-> result, warned |-> FALSE]

\* generate up to the call of client.beta.chat.completions.parse; tokens is
\* the length of tokenizer.encode(system prompt, newline, prompt, newline)
generate(source, context, tokens) ==
    /\ gen_pc = "idle"
    /\ Len(requests) < MaxRequests
    /\ IF source.type # "str"
       THEN /\ requests' = Append(requests,
                              Request(source, context, <<>>, 0, "TypeError"))
            /\ UNCHANGED <<gen_pc, provider_calls>>
       ELSE IF source.val = <<>>
       THEN /\ requests' = Append(requests,
                              Request(source, context, <<>>, 0,
                                      "ValueError: source parameter cannot be empty"))
            /\ UNCHANGED <<gen_pc, provider_calls>>
       ELSE LET prompt == build_prompt(source.val, context,
                                       prompt_length_limit)
                warned == prompt_was_trimmed(source.val, context,
                                             prompt_length_limit)
            IN  IF exceeds_max_context(tokens, max_context)
                THEN /\ requests' = Append(requests,
                                       [Request(source, context, prompt, tokens,
                                                "ValueError: Prompt exceeds max_context limit.")
                                           EXCEPT !.warned = warned])
                     /\ UNCHANGED <<gen_pc, provider_calls>>
                ELSE /\ requests' = Append(requests,
                                       [Request(source, context, prompt, tokens,
                                                "awaiting")
                                           EXCEPT !.warned = warned])
                     /\ provider_calls' =
                           Append(provider_calls,
                                  [request |-> Len(requests) + 1,
                                   user |-> prompt,
                                   max_tokens |->
                                       remaining_tokens_count(tokens,
                                                              max_context)])
                     /\ gen_pc' = "awaiting"
    /\ UNCHANGED <<max_context, prompt_length_limit>>
    /\ UNCHANGED <<walkVars, sanVars, cliVars, fmtVars, docuVars, cfgVars>>

\* the provider call returns the message content
parse_returns ==
    /\ gen_pc = "awaiting"
    /\ requests' = [requests EXCEPT ![Len(requests)].result = "returned"]
    /\ gen_pc' = "idle"
    /\ UNCHANGED <<max_context, prompt_length_limit, provider_calls>>
    /\ UNCHANGED <<walkVars, sanVars, cliVars, fmtVars, docuVars, cfgVars>>

\* the provider call raises: an openai.OpenAIError becomes a GenerationError,
\* anything else leaves generate as it is
parse_raises(exc) ==
    /\ gen_pc = "awaiting"
    /\ requests' = [requests EXCEPT ![Len(requests)].result =
                       IF exc = "OpenAIError" THEN "GenerationError" ELSE exc]
    /\ gen_pc' = "idle"
    /\ UNCHANGED <<max_context, prompt_length_limit, provider_calls>>
    /\ UNCHANGED <<walkVars, sanVars, cliVars, fmtVars, docuVars, cfgVars>>

-----------------------------------------------------------------------------
\* Body statements.  A "str" line is a SimpleStatementLine holding an
\* Expr(SimpleString); q is the opening delimiter of the literal, src tells a
\* parsed literal from one built by insert_docstring.
TripleDouble == "\"\"\""
TripleSingle == "'''"

StrLine(q, k) == [t |-> "str", q |-> q, k |-> k, src |-> "orig"]
StmtLine(k) == [t |-> "stmt", q |-> "", k |-> k, src |-> "orig"]
DeclLine(n) == [t |-> "decl", q |-> "", k |-> n, src |-> "orig"]
DocNode(q, n) == [t |-> "str", q |-> q, k |-> n, src |-> "gen"]

\* Statement lists a parsed declaration may start and end with; the nested
\* declarations sit between pre and post.
Templates ==
    << [pre |-> <<StmtLine(1)>>, post |-> <<>>],
       [pre |-> <<StrLine(TripleDouble, 0), StmtLine(1)>>, post |-> <<>>],
       [pre |-> <<StrLine(TripleSingle, 0), StmtLine(1)>>,
        post |-> <<StrLine("\"", 2)>>],
       [pre |-> <<StmtLine(1)>>, post |-> <<StrLine(TripleSingle, 2)>>] >>

RECURSIVE AncestorsOrSelf(_, _)
AncestorsOrSelf(p, n) ==
    IF n = 0 THEN {} ELSE {n} \cup AncestorsOrSelf(p, p[n])

\* Declarations are numbered in source (pre-)order.
IsPreorder(p) ==
    /\ p[1] = 0
    /\ \A n \in Decls \ {1} : p[n] \in {0} \cup AncestorsOrSelf(p, n - 1)

Children(p, m) == {n \in Decls : p[n] = m}

Descendants(p, m) == {n \in Decls : n # m /\ m \in AncestorsOrSelf(p, n)}

RECURSIVE DeclLines(_, _)
DeclLines(S, from) ==
    IF from > NumDecls THEN <<>>
    ELSE IF from \in S THEN <<DeclLine(from)>> \o DeclLines(S, from + 1)
    ELSE DeclLines(S, from + 1)

ParsedBody(p, tpl, n) ==
    Templates[tpl[n]].pre \o DeclLines(Children(p, n), 1)
        \o Templates[tpl[n]].post

-----------------------------------------------------------------------------
\* DocTransformer helpers

SelectSeqNot(s, Test(_)) == SelectSeq(s, LAMBDA x : ~Test(x))

\* mutant: a docstring the transformer inserted is not recognised
IsStringStmt_parsed_only(stmt) == stmt.t = "str" /\ stmt.src = "orig"

IsStringStmt(stmt) == stmt.t = "str"

\* mutant: all() where the code has any()
node_has_docstring_all(body) ==
    \A i \in 1..Len(body) : IsStringStmt(body[i])

node_has_docstring(body) ==
    \E i \in 1..Len(body) : IsStringStmt(body[i])

\* mutant: every declaration is sent for generation
needs_docstring_always(body, ow) == TRUE

needs_docstring(body, ow) ==
    IF node_has_docstring(body) THEN ow ELSE TRUE

RECURSIVE match_existing_quotes_style(_)
match_existing_quotes_style(body) ==
    IF body = <<>> THEN TripleDouble
    ELSE IF IsStringStmt(Head(body))
            /\ Head(body).q \in {TripleDouble, TripleSingle}
         THEN Head(body).q
    ELSE match_existing_quotes_style(Tail(body))

format_docstring(body, ow) ==
    IF ow THEN match_existing_quotes_style(body) ELSE TripleDouble

insert_docstring(body, n, ow) ==
    IF ~ow /\ node_has_docstring(body) THEN body
    ELSE LET doc_node == DocNode(format_docstring(body, ow), n)
             filtered_body ==
                 IF ow THEN SelectSeqNot(body, IsStringStmt) ELSE body
         IN  <<doc_node>> \o filtered_body

\* ProgressTracker.track_object: one entry appended per call.
track_object(log, n, ver, state) ==
    Append(log, [obj |-> n, ver |-> ver, state |-> state])

-----------------------------------------------------------------------------
\* Values of the command line and of the configuration: a str, an int, a
\* list, or None in the place of one of them
NoStr == [type |-> "NoneType", val |-> ""]
NoInt == [type |-> "NoneType", val |-> 0]
NoList == [type |-> "NoneType", val |-> <<>>]
Text(v) == [type |-> "str", val |-> v]
Number(v) == [type |-> "int", val |-> v]
List(v) == [type |-> "list", val |-> v]

\* States of the parts a specification does not exercise

Files == 1..NumFiles

CliIdle ==
    /\ shutdown_requested = FALSE
    /\ cli_pc = "done"
    /\ cli_path = 1
    /\ file_state = [f \in Files |-> "not_started"]
    /\ started_with_flag = {}
    /\ signals = 0
    /\ processed = 0
    /\ updated = 0

FmtIdle ==
    /\ fmt_docstring = <<>>
    /\ fmt_node = <<>>
    /\ fmt_overwrite = TRUE
    /\ fmt_result = <<>>
    /\ fmt_done = TRUE

DocuIdle ==
    /\ docu_max_context = 16384
    /\ docu_chain = <<>>
    /\ docu_constraints = NoList
    /\ docu_pc = "idle"
    /\ docu_requests = <<>>
    /\ docu_provider_calls = <<>>

NoConfig ==
    [base_url |-> NoStr, api_key |-> NoStr, ai_model |-> NoStr,
     max_context |-> NoInt, constraints |-> NoList]

NoPreset == "None"

CfgIdle ==
    /\ cfg_args = [preset |-> NoPreset, base_url |-> NoStr, api_key |-> NoStr,
                   ai_model |-> NoStr, max_context |-> NoInt,
                   constraints |-> NoList, paths_valid |-> TRUE]
    /\ cfg_pc = "returned_0"
    /\ cfg_config = NoConfig
    /\ cfg_error = [type |-> "", msg |-> ""]

-----------------------------------------------------------------------------
\* The walk

Init ==
    /\ parent \in {p \in [Decls -> 0..NumDecls] : IsPreorder(p)}
    /\ kind \in [Decls -> {"ClassDef", "FunctionDef"}]
    /\ overwrite \in BOOLEAN
    /\ \E tpl \in [Decls -> 1..Len(Templates)] :
          orig = [n \in Decls |-> ParsedBody(parent, tpl, n)]
    /\ tree = orig
    /\ phase = [n \in Decls |-> "unvisited"]
    /\ stack = <<>>
    /\ current_class = 0
    /\ tracked_object = <<>>
    /\ generate_calls = <<>>
    /\ generated = [n \in Decls |-> "not_called"]
    /\ SanIdle
    /\ GenIdle
    /\ CliIdle
    /\ FmtIdle
    /\ DocuIdle
    /\ CfgIdle

Top == IF stack = <<>> THEN 0 ELSE stack[Len(stack)]

\* libcst visits the children of a node in source order before leaving it.
NextToVisit(n) ==
    /\ phase[n] = "unvisited"
    /\ parent[n] = Top
    /\ \A m \in Decls : m < n /\ parent[m] = Top => phase[m] = "closed"

ReadyToLeave(n) ==
    /\ stack # <<>>
    /\ Top = n
    /\ \A m \in Children(parent, n) : phase[m] = "closed"

visit_ClassDef(n) ==
    /\ kind[n] = "ClassDef"
    /\ NextToVisit(n)
    /\ current_class' = n
    /\ tracked_object' = track_object(tracked_object, n, "original", "pending")
    /\ phase' = [phase EXCEPT ![n] = "open"]
    /\ stack' = Append(stack, n)
    /\ UNCHANGED <<parent, kind, orig, tree, overwrite, generate_calls,
                   generated>>
    /\ UNCHANGED <<sanVars, genVars, cliVars, fmtVars, docuVars, cfgVars>>

\* mutant: entering a function is not recorded
visit_FunctionDef_untracked(n) ==
    /\ kind[n] = "FunctionDef"
    /\ NextToVisit(n)
    /\ phase' = [phase EXCEPT ![n] = "open"]
    /\ stack' = Append(stack, n)
    /\ UNCHANGED <<parent, kind, orig, tree, overwrite, current_class,
                   tracked_object, generate_calls, generated>>
    /\ UNCHANGED <<sanVars, genVars, cliVars, fmtVars, docuVars, cfgVars>>

visit_FunctionDef(n) ==
    /\ kind[n] = "FunctionDef"
    /\ NextToVisit(n)
    /\ tracked_object' = track_object(tracked_object, n, "original", "pending")
    /\ phase' = [phase EXCEPT ![n] = "open"]
    /\ stack' = Append(stack, n)
    /\ UNCHANGED <<parent, kind, orig, tree, overwrite, current_class,
                   generate_calls, generated>>
    /\ UNCHANGED <<sanVars, genVars, cliVars, fmtVars, docuVars, cfgVars>>

\* What returning original_node does to the tree: the subtree of n is the
\* parsed one again, nested declarations included.
RestoreOriginal(n) ==
    [d \in Decls |-> IF d = n \/ d \in Descendants(parent, n)
                     THEN orig[d] ELSE tree[d]]

\* mutant: the except branch does not record the failure
process_node_untracked(n, result) ==
    IF needs_docstring(tree[n], overwrite)
    THEN /\ generate_calls' =
               Append(generate_calls, [node |-> n, context |-> current_class])
         /\ IF result = "ok"
            THEN /\ tree' = [tree EXCEPT
                               ![n] = insert_docstring(tree[n], n, overwrite)]
                 /\ tracked_object' =
                       track_object(tracked_object, n, "rewritten", "processed")
                 /\ generated' = [generated EXCEPT ![n] = "returned"]
            ELSE /\ tree' = RestoreOriginal(n)
                 /\ UNCHANGED tracked_object
                 /\ generated' = [generated EXCEPT ![n] = "raised"]
    ELSE /\ tracked_object' =
               track_object(tracked_object, n, "updated", "processed")
         /\ UNCHANGED <<tree, generate_calls, generated>>

\* result: what generate_docstring / parser / insert_docstring did:
\* "ok", or an exception from the generator or from the parser.
process_node(n, result) ==
    IF needs_docstring(tree[n], overwrite)
    THEN /\ generate_calls' =
               Append(generate_calls, [node |-> n, context |-> current_class])
         /\ IF result = "ok"
            THEN /\ tree' = [tree EXCEPT
                               ![n] = insert_docstring(tree[n], n, overwrite)]
                 /\ tracked_object' =
                       track_object(tracked_object, n, "rewritten", "processed")
                 /\ generated' = [generated EXCEPT ![n] = "returned"]
            ELSE /\ tree' = RestoreOriginal(n)
                 /\ tracked_object' =
                       track_object(tracked_object, n, "updated", "failed")
                 /\ generated' = [generated EXCEPT ![n] = "raised"]
    ELSE /\ tracked_object' =
               track_object(tracked_object, n, "updated", "processed")
         /\ UNCHANGED <<tree, generate_calls, generated>>

Results == {"ok", "generate_raised", "parser_raised"}

leave_FunctionDef(n) ==
    /\ kind[n] = "FunctionDef"
    /\ ReadyToLeave(n)
    /\ \E result \in Results : process_node(n, result)
    /\ phase' = [phase EXCEPT ![n] = "closed"]
    /\ stack' = SubSeq(stack, 1, Len(stack) - 1)
    /\ UNCHANGED <<parent, kind, orig, overwrite, current_class>>
    /\ UNCHANGED <<sanVars, genVars, cliVars, fmtVars, docuVars, cfgVars>>

leave_ClassDef(n) ==
    /\ kind[n] = "ClassDef"
    /\ ReadyToLeave(n)
    /\ \E result \in Results : process_node(n, result)
    /\ phase' = [phase EXCEPT ![n] = "closed"]
    /\ stack' = SubSeq(stack, 1, Len(stack) - 1)
    /\ UNCHANGED <<parent, kind, orig, overwrite, current_class>>
    /\ UNCHANGED <<sanVars, genVars, cliVars, fmtVars, docuVars, cfgVars>>

\* every statement of every body comes from the parsed source
IsParsedSource(bodies) ==
    \A n \in Decls : \A i \in 1..Len(bodies[n]) : bodies[n][i].src = "orig"

\* Another pass over the module the first pass returned, with a new
\* DocTransformer (and so a new tracker and no current class) whose
\* overwrite is off.
second_pass ==
    /\ \A n \in Decls : phase[n] = "closed"
    /\ IsParsedSource(orig)
    /\ ~IsParsedSource(tree)
    /\ orig' = tree
    /\ overwrite' = FALSE
    /\ phase' = [n \in Decls |-> "unvisited"]
    /\ current_class' = 0
    /\ tracked_object' = <<>>
    /\ generate_calls' = <<>>
    /\ generated' = [n \in Decls |-> "not_called"]
    /\ UNCHANGED <<parent, kind, tree, stack>>
    /\ UNCHANGED <<sanVars, genVars, cliVars, fmtVars, docuVars, cfgVars>>

Next ==
    \/ \E n \in Decls : visit_ClassDef(n)
    \/ \E n \in Decls : visit_FunctionDef(n)
    \/ \E n \in Decls : leave_FunctionDef(n)
    \/ \E n \in Decls : leave_ClassDef(n)
    \/ second_pass

Spec == Init /\ [][Next]_vars

WalkDone == \A n \in Decls : phase[n] = "closed"

WalkIdle ==
    /\ parent = [n \in Decls |-> 0]
    /\ kind = [n \in Decls |-> "FunctionDef"]
    /\ overwrite = FALSE
    /\ orig = [n \in Decls |-> <<>>]
    /\ tree = orig
    /\ phase = [n \in Decls |-> "closed"]
    /\ stack = <<>>
    /\ current_class = 0
    /\ tracked_object = <<>>
    /\ generate_calls = <<>>
    /\ generated = [n \in Decls |-> "not_called"]

InitSan ==
    /\ WalkIdle
    /\ GenIdle
    /\ CliIdle
    /\ FmtIdle
    /\ DocuIdle
    /\ CfgIdle
    /\ sanitizers \in Chains
    /\ san_input \in Texts
    /\ llm_response = san_input
    /\ san_idx = 1
    /\ san_error = ""
    /\ san_trace = <<>>

NextSan == sanitize

SpecSan == InitSan /\ [][NextSan]_vars

InitGen ==
    /\ WalkIdle
    /\ SanIdle
    /\ CliIdle
    /\ FmtIdle
    /\ DocuIdle
    /\ CfgIdle
    /\ max_context \in MaxContexts
    /\ prompt_length_limit \in PromptLengthLimits
    /\ gen_pc = "idle"
    /\ requests = <<>>
    /\ provider_calls = <<>>

NextGen ==
    \/ \E source \in Sources, context \in Contexts,
          tokens \in TokenCounts(max_context) :
          generate(source, context, tokens)
    \/ parse_returns
    \/ \E exc \in {"OpenAIError", "Exception"} : parse_raises(exc)

SpecGen == InitGen /\ [][NextGen]_vars

-----------------------------------------------------------------------------
\* DocAutoCLI._process_files and BaseCLI._handle_shutdown.  The paths are the
\* sequence fs_service.resolve_paths returns; process_file reads a file, runs
\* the walk on it and writes it back when it changed and dry_run is off.

outsideCli == <<walkVars, sanVars, genVars, fmtVars, docuVars, cfgVars>>

\* mutant: the loop also ends after a file that failed
process_files_next_stop_on_error ==
    /\ cli_pc = "loop"
    /\ cli_pc' = IF \/ cli_path > NumFiles
                    \/ shutdown_requested
                    \/ \E f \in Files : file_state[f] = "failed"
                 THEN "done" ELSE "count"
    /\ UNCHANGED <<shutdown_requested, cli_path, file_state,
                   started_with_flag, signals, processed, updated>>
    /\ UNCHANGED outsideCli

\* for path in resolve_paths(paths): if self.shutdown_requested: break
process_files_next ==
    /\ cli_pc = "loop"
    /\ cli_pc' = IF cli_path > NumFiles \/ shutdown_requested
                 THEN "done" ELSE "count"
    /\ UNCHANGED <<shutdown_requested, cli_path, file_state,
                   started_with_flag, signals, processed, updated>>
    /\ UNCHANGED outsideCli

\* mutant: a path is counted twice
process_files_count_twice ==
    /\ cli_pc = "count"
    /\ cli_pc' = "call"
    /\ processed' = processed + 2
    /\ UNCHANGED <<shutdown_requested, cli_path, file_state,
                   started_with_flag, signals, updated>>
    /\ UNCHANGED outsideCli

\* processed += 1, the statement after the check of the flag
process_files_count ==
    /\ cli_pc = "count"
    /\ cli_pc' = "call"
    /\ processed' = processed + 1
    /\ UNCHANGED <<shutdown_requested, cli_path, file_state,
                   started_with_flag, signals, updated>>
    /\ UNCHANGED outsideCli

\* service.process_file(path, dry_run) is entered
process_file_call ==
    /\ cli_pc = "call"
    /\ cli_pc' = "in_file"
    /\ file_state' = [file_state EXCEPT ![cli_path] = "transforming"]
    /\ started_with_flag' =
           IF shutdown_requested THEN started_with_flag \cup {cli_path}
           ELSE started_with_flag
    /\ UNCHANGED <<shutdown_requested, cli_path, signals, processed, updated>>
    /\ UNCHANGED outsideCli

\* the walk is over, the text changed and dry_run is off: the file is being
\* written
process_file_write ==
    /\ cli_pc = "in_file"
    /\ file_state[cli_path] = "transforming"
    /\ file_state' = [file_state EXCEPT ![cli_path] = "writing"]
    /\ UNCHANGED <<shutdown_requested, cli_pc, cli_path, started_with_flag,
                   signals, processed, updated>>
    /\ UNCHANGED outsideCli

\* process_file returns whether the file was modified; updated += 1 if so
process_file_return(modified) ==
    /\ cli_pc = "in_file"
    /\ file_state[cli_path] = "writing" => modified
    /\ file_state' = [file_state EXCEPT ![cli_path] = "processed"]
    /\ updated' = IF modified THEN updated + 1 ELSE updated
    /\ cli_path' = cli_path + 1
    /\ cli_pc' = "loop"
    /\ UNCHANGED <<shutdown_requested, started_with_flag, signals, processed>>
    /\ UNCHANGED outsideCli

\* process_file meets a file-level error (the path cannot be read, the
\* destination cannot be written): it reports the error for this file and
\* returns False, so updated stays as it is and the loop goes on
process_file_fails ==
    /\ cli_pc = "in_file"
    /\ file_state' = [file_state EXCEPT ![cli_path] = "failed"]
    /\ cli_path' = cli_path + 1
    /\ cli_pc' = "loop"
    /\ UNCHANGED <<shutdown_requested, started_with_flag, signals, processed,
                   updated>>
    /\ UNCHANGED outsideCli

\* SIGINT or SIGTERM is delivered: the handler runs in the main thread
\* between two instructions of whatever the loop is executing.  The first
\* signal sets the flag, a later one calls sys.exit(1), and the SystemExit
\* unwinds the call in progress.
handle_shutdown ==
    /\ cli_pc \in {"loop", "count", "call", "in_file"}
    /\ signals < MaxSignals
    /\ signals' = signals + 1
    /\ IF shutdown_requested
       THEN /\ cli_pc' = "exited"
            /\ file_state' =
                   IF cli_pc = "in_file"
                   THEN [file_state EXCEPT ![cli_path] = "interrupted"]
                   ELSE file_state
            /\ UNCHANGED shutdown_requested
       ELSE /\ shutdown_requested' = TRUE
            /\ UNCHANGED <<cli_pc, file_state>>
    /\ UNCHANGED <<cli_path, started_with_flag, processed, updated>>
    /\ UNCHANGED outsideCli

InitCli ==
    /\ WalkIdle
    /\ SanIdle
    /\ GenIdle
    /\ FmtIdle
    /\ DocuIdle
    /\ CfgIdle
    /\ shutdown_requested = FALSE
    /\ cli_pc = "loop"
    /\ cli_path = 1
    /\ file_state = [f \in Files |-> "not_started"]
    /\ started_with_flag = {}
    /\ signals = 0
    /\ processed = 0
    /\ updated = 0

NextCli ==
    \/ process_files_next
    \/ process_files_count
    \/ process_file_call
    \/ process_file_write
    \/ \E modified \in BOOLEAN : process_file_return(modified)
    \/ process_file_fails
    \/ handle_shutdown

SpecCli == InitCli /\ [][NextCli]_vars

-----------------------------------------------------------------------------
\* DocTransformer.format_docstring and indent_text on texts

outsideFmt == <<walkVars, sanVars, genVars, cliVars, docuVars, cfgVars>>

\* str.splitlines for texts whose only line break is the newline
RECURSIVE splitlines(_)
splitlines(text) ==
    IF text = <<>> THEN <<>>
    ELSE LET breaks == {i \in 1..Len(text) : text[i] = "\n"}
         IN  IF breaks = {} THEN <<text>>
             ELSE <<SubSeq(text, 1, Min(breaks) - 1)>>
                      \o splitlines(SubSeq(text, Min(breaks) + 1, Len(text)))

\* ' ' * spaces
Spaces(n) == [i \in 1..n |-> " "]

indent_text(text, spaces, ignore_first_line) ==
    LET lines == splitlines(text)
        indent == Spaces(spaces)
        indented_lines ==
            [i \in 1..Len(lines) |->
                IF ignore_first_line /\ i = 1 THEN lines[i]
                ELSE IF strip(lines[i]) # <<>> THEN indent \o lines[i]
                ELSE lines[i]]
    IN  Join(indented_lines)

\* the characters of a delimiter
QuoteChars(q) ==
    IF q = TripleSingle THEN <<"'", "'", "'">> ELSE <<"\"", "\"", "\"">>

\* the text format_docstring returns: delimiter, newline, indented text,
\* newline, delimiter
formatted_docstring(docstring, body, ow) ==
    LET quote_style == QuoteChars(format_docstring(body, ow))
    IN  quote_style \o <<"\n">> \o indent_text(docstring, 4, TRUE)
            \o <<"\n">> \o quote_style

DocAlphabet == {"a", " ", "\n"}

RECURSIVE DocTextsOfLength(_)
DocTextsOfLength(n) ==
    IF n = 0 THEN {<<>>}
    ELSE {Append(t, c) : t \in DocTextsOfLength(n - 1), c \in DocAlphabet}

DocTexts == UNION {DocTextsOfLength(n) : n \in 0..MaxDocLen}

\* bodies of a declaration without nested declarations
FmtBodies == {Templates[t].pre \o Templates[t].post : t \in 1..Len(Templates)}

InitFmt ==
    /\ WalkIdle
    /\ SanIdle
    /\ GenIdle
    /\ CliIdle
    /\ DocuIdle
    /\ CfgIdle
    /\ fmt_docstring \in DocTexts
    /\ fmt_node \in FmtBodies
    /\ fmt_overwrite \in BOOLEAN
    /\ fmt_result = <<>>
    /\ fmt_done = FALSE

\* docstring = self.format_docstring(docstring, node)
call_format_docstring ==
    /\ ~fmt_done
    /\ fmt_result' = formatted_docstring(fmt_docstring, fmt_node, fmt_overwrite)
    /\ fmt_done' = TRUE
    /\ UNCHANGED <<fmt_docstring, fmt_node, fmt_overwrite>>
    /\ UNCHANGED outsideFmt

NextFmt == call_format_docstring

SpecFmt == InitFmt /\ [][NextFmt]_vars

-----------------------------------------------------------------------------
\* DocuGen.generate: prompt, context check, provider call, sanitizer loop,
\* and the except clause around all of it

outsideDocu == <<walkVars, genVars, cliVars, fmtVars, cfgVars>>

\* a character outside ASCII: one character, three bytes in UTF-8
Euro == "euro"

RECURSIVE UTF8Len(_)
UTF8Len(s) ==
    IF s = <<>> THEN 0
    ELSE (IF Head(s) = Euro THEN 3 ELSE 1) + UTF8Len(Tail(s))

SourceLong ==
    <<"d", "e", "f", " ", "v", "e", "r", "y", "_", "l", "o", "n", "g", "_",
      "f", "u", "n", "c", "t", "i", "o", "n", "(", ")", ":", " ", "p", "a",
      "s", "s">>

SourceWide == <<Euro, Euro, Euro>>

DocuSources == {Str(<<>>), Str(SourceTest), Str(SourceLong), Str(SourceWide)}

DocuContexts == {None, Str(ContextTest)}

DocuMaxContexts == {10, 12, 16384}

DocuChains ==
    {llm_response_sanitizers,
     <<Dict("x.undefined_attribute", "False")>> \o llm_response_sanitizers,
     <<Dict("1 / 0", "True")>> \o llm_response_sanitizers}

\* constraints of the constructor: the default None, or a list of strings
DocuConstraints == {NoList, List(<<"Keep it short">>)}

\* message contents the provider returns
DocuResponses == {FencedPlaintext, PaddedText}

docu_build_prompt(source, additional_context, mc) ==
    Prefix(Join(prompt_lines(source, additional_context)), mc)

\* Lengths encoder.encode may return for a text: a token covers at least one
\* byte
DocuTokenCounts(prompt, mc) ==
    {t \in {1, mc, mc + 1} : t <= UTF8Len(prompt)}

is_text_within_context(token_count, context_length) ==
    token_count <= context_length

Exception(type, msg) == [type |-> type, msg |-> msg]
NoException == Exception("", "")
FailedToGenerate == Exception("RuntimeError", "Failed to generate documentation")

DocuRequest(source, context, prompt, tokens, state, raised, cause) ==
    [source |-> source, context |-> context, prompt |-> prompt,
     tokens |-> tokens, state |-> state, raised |-> raised, cause |-> cause,
     value |-> <<>>]

\* generate_system_prompt joins config['constraints'] with newlines: what
\* the join raises, if anything
docu_generate_system_prompt(constraints) ==
    IF constraints.type = "NoneType"
    THEN Exception("TypeError", "can only join an iterable")
    ELSE NoException

\* generate up to the call of client.chat.completions.create, whose
\* arguments are evaluated first
docu_generate(source, additional_context, tokens) ==
    /\ docu_pc = "idle"
    /\ Len(docu_requests) < MaxDocuRequests
    /\ LET prompt == docu_build_prompt(source.val, additional_context,
                                       docu_max_context)
       IN  IF ~is_text_within_context(tokens, docu_max_context)
           THEN /\ docu_requests' =
                      Append(docu_requests,
                             DocuRequest(source, additional_context, prompt,
                                         tokens, "raised", FailedToGenerate,
                                         "ValueError: prompt is too long"))
                /\ UNCHANGED <<docu_pc, docu_provider_calls>>
           ELSE IF docu_generate_system_prompt(docu_constraints) # NoException
           THEN /\ docu_requests' =
                      Append(docu_requests,
                             DocuRequest(source, additional_context, prompt,
                                         tokens, "raised", FailedToGenerate,
                                         "TypeError: can only join an iterable"))
                /\ UNCHANGED <<docu_pc, docu_provider_calls>>
           ELSE /\ docu_requests' =
                      Append(docu_requests,
                             DocuRequest(source, additional_context, prompt,
                                         tokens, "awaiting", NoException, ""))
                /\ docu_provider_calls' =
                      Append(docu_provider_calls,
                             [request |-> Len(docu_requests) + 1,
                              user |-> prompt,
                              max_tokens |-> docu_max_context])
                /\ docu_pc' = "awaiting"
    /\ UNCHANGED <<docu_max_context, docu_chain, docu_constraints>>
    /\ UNCHANGED sanVars
    /\ UNCHANGED outsideDocu

\* the provider call returns; the sanitizer loop starts on the content
docu_create_returns(content) ==
    /\ docu_pc = "awaiting"
    /\ docu_pc' = "sanitizing"
    /\ sanitizers' = docu_chain
    /\ san_input' = content
    /\ llm_response' = content
    /\ san_idx' = 1
    /\ san_error' = ""
    /\ san_trace' = <<>>
    /\ UNCHANGED <<docu_max_context, docu_chain, docu_constraints, docu_requests,
                   docu_provider_calls>>
    /\ UNCHANGED outsideDocu

\* the provider call raises: logged, re-raised, and wrapped by generate
docu_create_raises ==
    /\ docu_pc = "awaiting"
    /\ docu_pc' = "idle"
    /\ docu_requests' =
           [docu_requests EXCEPT ![Len(docu_requests)] =
               [@ EXCEPT !.state = "raised", !.raised = FailedToGenerate,
                         !.cause = "Exception: API Error"]]
    /\ UNCHANGED <<docu_max_context, docu_chain, docu_constraints, docu_provider_calls>>
    /\ UNCHANGED sanVars
    /\ UNCHANGED outsideDocu

\* the sanitizer loop is over: return llm_response, or the except clause
\* wraps what a sanitizer raised
docu_return ==
    /\ docu_pc = "sanitizing"
    /\ SanDone \/ san_error # ""
    /\ docu_pc' = "idle"
    /\ docu_requests' =
           [docu_requests EXCEPT ![Len(docu_requests)] =
               IF san_error = ""
               THEN [@ EXCEPT !.state = "returned", !.value = llm_response]
               ELSE [@ EXCEPT !.state = "raised", !.raised = FailedToGenerate,
                              !.cause = san_error]]
    /\ UNCHANGED <<docu_max_context, docu_chain, docu_constraints, docu_provider_calls>>
    /\ UNCHANGED sanVars
    /\ UNCHANGED outsideDocu

InitDocu ==
    /\ WalkIdle
    /\ SanIdle
    /\ GenIdle
    /\ CliIdle
    /\ FmtIdle
    /\ CfgIdle
    /\ docu_max_context \in DocuMaxContexts
    /\ docu_chain \in DocuChains
    /\ docu_constraints \in DocuConstraints
    /\ docu_pc = "idle"
    /\ docu_requests = <<>>
    /\ docu_provider_calls = <<>>

NextDocu ==
    \/ \E source \in DocuSources, additional_context \in DocuContexts :
          \E tokens \in DocuTokenCounts(
                            docu_build_prompt(source.val, additional_context,
                                              docu_max_context),
                            docu_max_context) :
              docu_generate(source, additional_context, tokens)
    \/ \E content \in DocuResponses : docu_create_returns(content)
    \/ docu_create_raises
    \/ sanitize
    \/ docu_return

SpecDocu == InitDocu /\ [][NextDocu]_vars

-----------------------------------------------------------------------------
\* DocAutoCLI.run up to the file loop: parse_args, resolve_config with the
\* presets, and the validation of APIConfig and GenerationConfig

outsideCfg == <<walkVars, sanVars, genVars, cliVars, fmtVars, docuVars>>

\* bool(x)
truthy(x) ==
    CASE x.type = "NoneType" -> FALSE
      [] x.type = "str" -> x.val # ""
      [] x.type = "int" -> x.val # 0
      [] x.type = "list" -> x.val # <<>>

\* a or b
Or(a, b) == IF truthy(a) THEN a ELSE b

\* urlparse on the URLs of the presets, of the tests and of the command line
urlparse(url) ==
    CASE url = "http://localhost:11434/v1" ->
             [scheme |-> "http", netloc |-> "localhost:11434"]
      [] url = "https://api.openai.com/v1" ->
             [scheme |-> "https", netloc |-> "api.openai.com"]
      [] url = "https://generativelanguage.googleapis.com/v1beta/openai/" ->
             [scheme |-> "https", netloc |-> "generativelanguage.googleapis.com"]
      [] url = "https://api.deepseek.com/v1" ->
             [scheme |-> "https", netloc |-> "api.deepseek.com"]
      [] url = "http://custom-url" ->
             [scheme |-> "http", netloc |-> "custom-url"]
      [] OTHER -> [scheme |-> "", netloc |-> ""]

default_constraints ==
    List(<<"Don't respond with anything other than valid code",
           "Strictly respond in Sphinx documentation format.",
           "Single line docstrings should not end with any spacing">>)

OLLAMA_PRESET ==
    [base_url |-> Text("http://localhost:11434/v1"), api_key |-> Text("ollama"),
     ai_model |-> Text("phi4"), max_context |-> Number(16384)]

OPENAI_PRESET ==
    [base_url |-> Text("https://api.openai.com/v1"), api_key |-> NoStr,
     ai_model |-> Text("gpt-4o-mini"), max_context |-> Number(16384)]

GEMINI_PRESET ==
    [base_url |->
         Text("https://generativelanguage.googleapis.com/v1beta/openai/"),
     api_key |-> NoStr, ai_model |-> Text("gemini-2.0-flash-exp"),
     max_context |-> Number(131072)]

DEEPSEEK_PRESET ==
    [base_url |-> Text("https://api.deepseek.com/v1"), api_key |-> NoStr,
     ai_model |-> Text("deepseek-chat"), max_context |-> Number(65536)]

presets == {"ollama", "openai", "gemini", "deepseek"}

PresetOptions(name) ==
    CASE name = "ollama" -> OLLAMA_PRESET
      [] name = "openai" -> OPENAI_PRESET
      [] name = "gemini" -> GEMINI_PRESET
      [] name = "deepseek" -> DEEPSEEK_PRESET

\* APIConfig.__post_init__: the exception it raises, if any
APIConfig(base_url, api_key) ==
    IF ~truthy(base_url)
    THEN Exception("ValueError", "Base URL is required")
    ELSE IF ~truthy(api_key)
    THEN Exception("ValueError", "API key required")
    ELSE IF urlparse(base_url.val).scheme = ""
            \/ urlparse(base_url.val).netloc = ""
    THEN Exception("ValueError", "Invalid base URL format")
    ELSE NoException

\* GenerationConfig.__post_init__: the exception it raises, if any
GenerationConfig(ai_model, mc, constraints) ==
    IF ~truthy(ai_model)
    THEN Exception("ValueError", "AI model is required")
    ELSE IF ~truthy(constraints)
    THEN Exception("ValueError", "At least one constraint is required")
    ELSE IF constraints.type # "list"
    THEN Exception("TypeError", "constraints must be a list")
    ELSE IF mc.type # "int"
    THEN Exception("TypeError", "'<' not supported")
    ELSE IF mc.val < 1
    THEN Exception("ValueError", "max_context must be positive")
    ELSE NoException

\* DocAutoConfig.create: APIConfig is built first, then GenerationConfig
DocAutoConfig_create(base_url, api_key, ai_model, mc, constraints) ==
    LET api == APIConfig(base_url, api_key)
        generation == GenerationConfig(ai_model, mc, constraints)
    IN  IF api # NoException
        THEN [raised |-> api, config |-> NoConfig]
        ELSE IF generation # NoException
        THEN [raised |-> generation, config |-> NoConfig]
        ELSE [raised |-> NoException,
              config |-> [base_url |-> base_url, api_key |-> api_key,
                          ai_model |-> ai_model, max_context |-> mc,
                          constraints |-> constraints]]

\* PresetManager.get_preset: the preset has no constraints, so the default
\* of GenerationConfig is taken
get_preset(name) ==
    LET p == PresetOptions(name)
    IN  DocAutoConfig_create(p.base_url, p.api_key, p.ai_model, p.max_context,
                             default_constraints)

resolve_config(args) ==
    IF args.preset = NoPreset
    THEN [raised |-> Exception("UnboundLocalError", "preset"),
          config |-> NoConfig]
    ELSE LET preset == get_preset(args.preset)
         IN  IF preset.raised # NoException
             THEN preset
             ELSE DocAutoConfig_create(
                      Or(args.base_url, preset.config.base_url),
                      Or(args.api_key, preset.config.api_key),
                      Or(args.ai_model, preset.config.ai_model),
                      Or(args.max_context, preset.config.max_context),
                      Or(args.constraints, preset.config.constraints))

\* Command lines: at most one preset flag, options given or left out, and
\* whether fs_service.is_valid_paths accepts the paths
CommandLines ==
    [preset : presets \cup {NoPreset},
     base_url : {NoStr, Text("http://custom-url"), Text("invalid-url")},
     api_key : {NoStr, Text("custom-key")},
     ai_model : {NoStr, Text("custom-model")},
     max_context : {NoInt, Number(0), Number(-1), Number(4096)},
     constraints : {NoList, List(<<"Custom constraint">>)},
     paths_valid : BOOLEAN]

\* raw_args = self.parse_args(args), with validate_args on the paths
run_parse_args ==
    /\ cfg_pc = "start"
    /\ IF cfg_args.paths_valid
       THEN /\ cfg_pc' = "parsed"
            /\ UNCHANGED cfg_error
       ELSE /\ cfg_pc' = "returned_1"
            /\ cfg_error' = Exception("ValueError", "Invalid path provided")
    /\ UNCHANGED <<cfg_args, cfg_config>>
    /\ UNCHANGED outsideCfg

\* config = self.resolve_config(raw_args); an exception goes to the except
\* clause of run, which returns 1
run_resolve_config ==
    /\ cfg_pc = "parsed"
    /\ LET resolved == resolve_config(cfg_args)
       IN  IF resolved.raised # NoException
           THEN /\ cfg_pc' = "returned_1"
                /\ cfg_error' = resolved.raised
                /\ UNCHANGED cfg_config
           ELSE /\ cfg_pc' = "resolved"
                /\ cfg_config' = resolved.config
                /\ UNCHANGED cfg_error
    /\ UNCHANGED cfg_args
    /\ UNCHANGED outsideCfg

\* the client, generator and service are built and _process_files is entered
run_process_files ==
    /\ cfg_pc = "resolved"
    /\ cfg_pc' = "process_files"
    /\ UNCHANGED <<cfg_args, cfg_config, cfg_error>>
    /\ UNCHANGED outsideCfg

\* _process_files returned; run logs the totals and returns 0
run_return ==
    /\ cfg_pc = "process_files"
    /\ cfg_pc' = "returned_0"
    /\ UNCHANGED <<cfg_args, cfg_config, cfg_error>>
    /\ UNCHANGED outsideCfg

InitCfg ==
    /\ WalkIdle
    /\ SanIdle
    /\ GenIdle
    /\ CliIdle
    /\ FmtIdle
    /\ DocuIdle
    /\ cfg_args \in CommandLines
    /\ cfg_pc = "start"
    /\ cfg_config = NoConfig
    /\ cfg_error = NoException

NextCfg ==
    \/ run_parse_args
    \/ run_resolve_config
    \/ run_process_files
    \/ run_return

SpecCfg == InitCfg /\ [][NextCfg]_vars

-----------------------------------------------------------------------------
\* Properties of the walk (specification Spec)

HasLeadingDoc(body) == body # <<>> /\ IsStringStmt(Head(body))

Rewritten(n) ==
    /\ tree[n] # <<>>
    /\ Head(tree[n]).src = "gen"
    /\ Head(tree[n]).k = n

SubtreeUnchanged(n) ==
    \A d \in {n} \cup Descendants(parent, n) : tree[d] = orig[d]

OnlyFailure(b) == \A n \in Decls : generated[n] = "raised" <=> n = b

FailedEntries ==
    {i \in 1..Len(tracked_object) : tracked_object[i].state = "failed"}

Attempted(n) ==
    \E i \in 1..Len(generate_calls) : generate_calls[i].node = n

SiblingsWithOneFailure(a, b, c) ==
    /\ a # b /\ b # c /\ a # c
    /\ parent[a] = parent[b]
    /\ parent[c] = parent[b]
    /\ generated[a] = "returned"
    /\ generated[c] = "returned"
    /\ OnlyFailure(b)

\* C1: when the walk is over and, among sibling declarations A, B, C, the
\* generation for B was the only one that failed while those for A and C
\* succeeded, A and C were attempted and carry their new docstring, the
\* subtree of B is the parsed one, and the tracker log holds exactly one
\* failed entry.
C1_FailureIsolation ==
    WalkDone =>
        \A a, b, c \in Decls :
            SiblingsWithOneFailure(a, b, c) =>
                /\ Attempted(a) /\ Rewritten(a)
                /\ Attempted(c) /\ Rewritten(c)
                /\ SubtreeUnchanged(b)
                /\ Cardinality(FailedEntries) = 1
                /\ tracked_object[Min(FailedEntries)].obj = b

C1_Witness ==
    /\ WalkDone
    /\ \E a, b, c \in Decls :
          /\ a < b /\ b < c
          /\ SiblingsWithOneFailure(a, b, c)
          /\ Rewritten(a) /\ Rewritten(c)
          /\ Cardinality(FailedEntries) = 1

\* C2: when the generation for a class fails after the docstrings of the
\* declarations nested in it were inserted, the tree at the end of the walk
\* still holds the nested docstrings and only the class is without a new one.
C2_NestedDocsSurvive ==
    WalkDone =>
        \A c, m \in Decls :
            (/\ kind[c] = "ClassDef"
             /\ m \in Descendants(parent, c)
             /\ generated[c] = "raised"
             /\ generated[m] = "returned"
             /\ OnlyFailure(c))
                => Rewritten(m) /\ tree[c] = orig[c]

\* C8 as stated: with overwrite disabled, the whole subtree of a declaration
\* that has a documentation statement is the parsed one at the end of the
\* walk.
C8_SubtreeIdentical ==
    (WalkDone /\ ~overwrite) =>
        \A n \in Decls : HasLeadingDoc(orig[n]) => SubtreeUnchanged(n)

\* C8 amended: with overwrite disabled, the own statement list of a
\* declaration that has a documentation statement is the parsed one at the
\* end of the walk, and its whole subtree is the parsed one when every
\* declaration nested in it has a documentation statement too.
C8_Idempotence ==
    (WalkDone /\ ~overwrite) =>
        \A n \in Decls :
            HasLeadingDoc(orig[n]) =>
                /\ tree[n] = orig[n]
                /\ (\A d \in Descendants(parent, n) : HasLeadingDoc(orig[d]))
                       => SubtreeUnchanged(n)

C8_Witness ==
    /\ WalkDone
    /\ ~overwrite
    /\ \E n \in Decls :
          /\ HasLeadingDoc(orig[n])
          /\ tree[n] = orig[n]
          /\ \E d \in Descendants(parent, n) : Rewritten(d)
          /\ \E e \in Decls \ {n} :
                /\ HasLeadingDoc(orig[e])
                /\ SubtreeUnchanged(e)

\* C9: a step that rewrites a declaration puts the new documentation
\* statement first; a body of N statements without a leading documentation
\* statement becomes N + 1 statements with the N old ones after the new one
\* in their order; a body with a leading documentation statement keeps N
\* statements, only the leading one being replaced.
C9_RewriteCorrectness ==
    [][\A n \in Decls :
          (generated[n] = "not_called" /\ generated'[n] = "returned") =>
              /\ Rewritten(n)'
              /\ IF HasLeadingDoc(tree[n])
                 THEN /\ Len(tree'[n]) = Len(tree[n])
                      /\ Tail(tree'[n]) = Tail(tree[n])
                 ELSE /\ Len(tree'[n]) = Len(tree[n]) + 1
                      /\ Tail(tree'[n]) = tree[n]]_vars

\* C10: with overwrite disabled, a declaration that was left is one the
\* transformer took to have documentation (no generation was attempted for
\* it) exactly when the first statement of its body is a string expression
\* statement.
C10_LeadingStatementRule ==
    \A n \in Decls :
        (phase[n] = "closed" /\ ~overwrite) =>
            (generated[n] = "not_called" <=> HasLeadingDoc(orig[n]))

\* The class whose name is in effect for n when the context is scoped: the
\* nearest class enclosing n, 0 (None) when there is none.
RECURSIVE EnclosingClass(_)
EnclosingClass(n) ==
    IF parent[n] = 0 THEN 0
    ELSE IF kind[parent[n]] = "ClassDef" THEN parent[n]
    ELSE EnclosingClass(parent[n])

\* C11: every generation for a function is made with the name of the nearest
\* class enclosing it as context, and with none when no class encloses it;
\* the generation for a class is made with its own name or with that of the
\* nearest class enclosing it.
C11_ScopedClassContext ==
    \A i \in 1..Len(generate_calls) :
        LET n == generate_calls[i].node
        IN  IF kind[n] = "FunctionDef"
            THEN generate_calls[i].context = EnclosingClass(n)
            ELSE generate_calls[i].context \in {n, EnclosingClass(n)}

EntriesOf(n) == SelectSeq(tracked_object, LAMBDA e : e.obj = n)

\* C12: the tracker log holds for each declaration nothing before it is
\* entered, one pending entry while it is open, and after it is left one
\* pending entry followed by exactly one terminal entry (processed or
\* failed); so at the end of the walk the latest entry of every declaration
\* is terminal.
C12_MonotonicProgress ==
    \A n \in Decls :
        LET es == EntriesOf(n)
        IN  /\ Len(es) <= 2
            /\ Len(es) >= 1 => es[1].state = "pending"
            /\ Len(es) = 2 => es[2].state \in {"processed", "failed"}
            /\ phase[n] = "unvisited" <=> Len(es) = 0
            /\ phase[n] = "open" <=> Len(es) = 1
            /\ phase[n] = "closed" <=> Len(es) = 2

C12_Witness ==
    /\ WalkDone
    /\ \E n, m \in Decls :
          /\ kind[n] = "FunctionDef"
          /\ EntriesOf(n)[2].state = "failed"
          /\ EntriesOf(m)[2].state = "processed"

\* C14: a declaration that was rewritten with overwrite on and whose parsed
\* body opens with a documentation statement delimited by three single
\* quotes carries a new documentation statement with the same delimiter; a
\* rewritten declaration whose parsed body does not open with a documentation
\* statement carries one delimited by three double quotes.
C14_QuoteStylePreserved ==
    \A n \in Decls :
        Rewritten(n) =>
            /\ (overwrite /\ HasLeadingDoc(orig[n])
                    /\ Head(orig[n]).q = TripleSingle)
                   => Head(tree[n]).q = TripleSingle
            /\ ~HasLeadingDoc(orig[n]) => Head(tree[n]).q = TripleDouble

LastState(n) == EntriesOf(n)[Len(EntriesOf(n))].state

\* C25: a declaration that was left was sent for generation exactly when
\* overwrite is on or its body does not open with a documentation statement;
\* one that was not sent has its own statement list as parsed, Processed as
\* its latest tracker entry, and no generation call.
C25_NeedsDocDecision ==
    \A n \in Decls :
        phase[n] = "closed" =>
            /\ Attempted(n) <=> (overwrite \/ ~HasLeadingDoc(orig[n]))
            /\ ~Attempted(n) =>
                   /\ tree[n] = orig[n]
                   /\ LastState(n) = "processed"
                   /\ generated[n] = "not_called"

NeedsDocumentation == {n \in Decls : overwrite \/ ~HasLeadingDoc(orig[n])}

CallsOf(n) == {i \in 1..Len(generate_calls) : generate_calls[i].node = n}

\* C27: in a pass every declaration has at most one generation call, a call
\* is over (returned or raised) and its declaration left before anything
\* else happens, and there are never more calls than declarations that need
\* documentation.
C27_NoRetryNoOverlap ==
    /\ \A n \in Decls : Cardinality(CallsOf(n)) <= 1
    /\ \A i \in 1..Len(generate_calls) :
          /\ generated[generate_calls[i].node] \in {"returned", "raised"}
          /\ phase[generate_calls[i].node] = "closed"
    /\ Len(generate_calls) <= Cardinality(NeedsDocumentation)

C27_Witness ==
    /\ WalkDone
    /\ ~overwrite
    /\ Len(generate_calls) = 2
    /\ Cardinality(NeedsDocumentation) = 2
    /\ \E n, m \in Decls :
          generated[n] = "raised" /\ generated[m] = "returned"

\* the body opens with the docstring a pass generated for n
DocumentedByPass(body, n) ==
    /\ body # <<>>
    /\ Head(body).src = "gen"
    /\ Head(body).k = n

AllDocumentedBefore ==
    /\ ~IsParsedSource(orig)
    /\ \A n \in Decls : DocumentedByPass(orig[n], n)

\* C28: in a second pass with overwrite off over a module in which the first
\* pass documented every declaration, no generation call is made, the tree
\* stays the one the pass started on, nothing is recorded Failed and every
\* declaration that was left has Processed as its latest entry.
C28_SecondPassStable ==
    (AllDocumentedBefore /\ ~overwrite) =>
        /\ generate_calls = <<>>
        /\ tree = orig
        /\ FailedEntries = {}
        /\ \A n \in Decls : phase[n] = "closed" => LastState(n) = "processed"

C28_Witness ==
    /\ AllDocumentedBefore
    /\ ~overwrite
    /\ WalkDone
    /\ generate_calls = <<>>
    /\ tree = orig
    /\ \A n \in Decls : LastState(n) = "processed"
    /\ \E n \in Decls : parent[n] # 0

-----------------------------------------------------------------------------
\* Properties of the file loop (specification SpecCli)

\* C13: no file is entered while the shutdown flag is set, and no file that
\* was entered is left unfinished by a signal: every file is not started,
\* in progress with the process alive, or fully processed.
C13_CooperativeCancellation ==
    /\ started_with_flag = {}
    /\ \A f \in Files : file_state[f] # "interrupted"

Finished(f) == file_state[f] \in {"processed", "failed"}

\* paths the for statement has taken from resolve_paths so far
PathsYielded ==
    IF cli_pc = "loop" THEN cli_path - 1
    ELSE IF cli_path > NumFiles THEN NumFiles ELSE cli_path

CountersInOrder ==
    /\ updated <= processed
    /\ processed <= PathsYielded
    /\ \A f \in Files :
           file_state[f] # "not_started" => \A g \in 1..(f - 1) : Finished(g)

FlagStaysSet == shutdown_requested => shutdown_requested'

FinishedStaysFinished ==
    \A f \in Files : Finished(f) => file_state'[f] = file_state[f]

C29_CountersFrozenByFlag ==
    /\ []CountersInOrder
    /\ [][FinishedStaysFinished]_vars
    /\ [][FlagStaysSet]_vars
    /\ [][shutdown_requested => processed' = processed]_vars

\* C29 amended: updated <= processed <= paths yielded, files are processed
\* once and in order, and the flag is never cleared; with the flag set the
\* loop never passes the check of the flag again, so processed changes only
\* by the one increment whose check was made before the flag was set.
C29_CountersAndFlag ==
    /\ []CountersInOrder
    /\ [][FinishedStaysFinished]_vars
    /\ [][FlagStaysSet]_vars
    /\ [][processed' \in {processed, processed + 1}]_vars
    /\ [][(shutdown_requested /\ cli_pc # "count")
              => (processed' = processed /\ cli_pc' # "count")]_vars

C29_Witness ==
    /\ cli_pc = "done"
    /\ shutdown_requested
    /\ started_with_flag # {}
    /\ processed = 2
    /\ updated = 1

-----------------------------------------------------------------------------
\* Properties of format_docstring (specification SpecFmt)

FourSpaces(line) ==
    Len(line) >= 4 /\ \A i \in 1..4 : line[i] = " "

EndsWithSpace(line) == line # <<>> /\ IsSpace(line[Len(line)])

Blank(line) == strip(line) = <<>>

\* C15: every line of the formatted docstring after the opening delimiter
\* line and before the closing one is empty or starts with four spaces.
C15_EveryLineIndented ==
    fmt_done =>
        LET out == splitlines(fmt_result)
        IN  \A i \in 2..(Len(out) - 1) :
                out[i] = <<>> \/ FourSpaces(out[i])

\* What format_docstring does instead: the formatted docstring is the opening delimiter line, the
\* lines of the generated text and the closing delimiter line; the first
\* line of the generated text is left as it is, every later line that is
\* not blank is that line with exactly four spaces put before it, a blank
\* line is left as it is, the closing delimiter is not indented, and no line
\* ends with whitespace unless the generated line did.
IndentedExceptFirstLine ==
    fmt_done =>
        LET gen == splitlines(fmt_docstring)
            out == splitlines(fmt_result)
            quote_style == QuoteChars(format_docstring(fmt_node, fmt_overwrite))
        IN  /\ Len(out) = (IF gen = <<>> THEN 1 ELSE Len(gen)) + 2
            /\ out[1] = quote_style
            /\ out[Len(out)] = quote_style
            /\ gen = <<>> => out[2] = <<>>
            /\ gen # <<>> => out[2] = gen[1]
            /\ \A i \in 2..Len(gen) :
                  out[i + 1] = IF Blank(gen[i]) THEN gen[i]
                               ELSE Spaces(4) \o gen[i]
            /\ \A i \in 1..Len(gen) :
                  EndsWithSpace(out[i + 1]) => EndsWithSpace(gen[i])

-----------------------------------------------------------------------------
\* Properties of the sanitizer chain (specification SpecSan)

FailSilentStep(s) ==
    s.form = "dict" /\ s.fn # NoSanitizerKey /\ s.fail_silent = "True"

FunctionRaises(s, text) ==
    s.fn # NoSanitizerKey /\ ApplySanitizerFunction(s.fn, text).raised # ""

\* C5: the default chain, run to its end on the fenced response with the
\* indented leaked definition, yields exactly the text Test content.
C5_ChainOrder ==
    (SanDone /\ sanitizers = llm_response_sanitizers
        /\ san_input = ChainOrderInput)
        => llm_response = TestContent

\* C6: the steps run in list order, each on the output of the one before
\* it; a step tagged fail_silent whose function raises returns its input
\* unchanged, and the chain goes on to the next step.
C6_FailSilent ==
    /\ \A i \in 1..Len(san_trace) :
          /\ san_trace[i].step = i
          /\ san_trace[i].inp =
                 IF i = 1 THEN san_input ELSE san_trace[i - 1].out
          /\ i < Len(san_trace) => san_trace[i].raised = ""
          /\ (FailSilentStep(sanitizers[i])
                 /\ FunctionRaises(sanitizers[i], san_trace[i].inp))
                => /\ san_trace[i].raised = ""
                   /\ san_trace[i].out = san_trace[i].inp
    /\ san_error = "" =>
          /\ san_idx = Len(san_trace) + 1
          /\ llm_response =
                 IF san_trace = <<>> THEN san_input
                 ELSE san_trace[Len(san_trace)].out

C6_Witness ==
    \E i \in 1..Len(san_trace) :
        /\ i < Len(san_trace)
        /\ FailSilentStep(sanitizers[i])
        /\ FunctionRaises(sanitizers[i], san_trace[i].inp)
        /\ san_trace[i].inp # <<>>
        /\ san_trace[i + 1].inp = san_trace[i].inp

\* C7: when the function of a step that is not fail-silent raises, whether
\* the step is a plain callable or a dict whose fail_silent is false or
\* absent, the chain ends with ValueError Sanitizer failed and no later step
\* runs.
C7_FailLoud ==
    \A i \in 1..Len(san_trace) :
        (~FailSilentStep(sanitizers[i])
            /\ FunctionRaises(sanitizers[i], san_trace[i].inp))
            => /\ san_trace[i].raised = "ValueError: Sanitizer failed"
               /\ san_error = "ValueError: Sanitizer failed"
               /\ i = Len(san_trace)

-----------------------------------------------------------------------------
\* Properties of DocAutoGenerator (specification SpecGen)

CallsFor(i) ==
    {j \in 1..Len(provider_calls) : provider_calls[j].request = i}

TokensCounted(r) == r.source.type = "str" /\ r.source.val # <<>>

\* C3: a request whose token count exceeds max_context minus the response
\* reserve has failed with the ValueError of the budget check and no
\* provider call was made for it; every provider call belongs to a request
\* that passed the check.
C3_BudgetRejection ==
    /\ \A i \in 1..Len(requests) :
          (TokensCounted(requests[i])
              /\ requests[i].tokens > max_context - min_response_context)
              => /\ requests[i].result =
                        "ValueError: Prompt exceeds max_context limit."
                 /\ CallsFor(i) = {}
    /\ \A j \in 1..Len(provider_calls) :
          /\ provider_calls[j].request \in 1..Len(requests)
          /\ requests[provider_calls[j].request].tokens
                 <= max_context - min_response_context

C3_Witness ==
    \E i \in 1..Len(requests) :
        /\ TokensCounted(requests[i])
        /\ max_context > min_response_context
        /\ requests[i].tokens = max_context - min_response_context + 1
        /\ requests[i].result = "ValueError: Prompt exceeds max_context limit."
        /\ CallsFor(i) = {}

\* C4: the max_tokens of every provider call is max_context minus the token
\* count of its request, hence at least the response reserve and at most
\* max_context.
C4_ResponseCeiling ==
    \A j \in 1..Len(provider_calls) :
        /\ provider_calls[j].max_tokens =
               max_context - requests[provider_calls[j].request].tokens
        /\ provider_calls[j].max_tokens >= min_response_context
        /\ provider_calls[j].max_tokens <= max_context

C4_Witness ==
    \E j \in 1..Len(provider_calls) :
        /\ provider_calls[j].max_tokens = min_response_context
        /\ requests[provider_calls[j].request].tokens
               = max_context - min_response_context

HasContext(r) == r.context.type = "str" /\ r.context.val # <<>>

IsContextLine(line) == StartsWith(line, 1, AdditionalContext)

\* C16 as stated: the user message of every provider call made for a request
\* with a non-empty context has the line Additional context: followed by the
\* whole context, and that of a request with an empty or absent context has
\* no line starting with Additional context: .
C16_ContextLineSent ==
    \A j \in 1..Len(provider_calls) :
        LET r == requests[provider_calls[j].request]
            lines == splitlines(provider_calls[j].user)
        IN  IF HasContext(r)
            THEN \E i \in 1..Len(lines) :
                     lines[i] = AdditionalContext \o r.context.val
            ELSE \A i \in 1..Len(lines) : ~IsContextLine(lines[i])

\* C16 amended: the user message of a provider call is never longer than
\* prompt_length_limit; when it is shorter than the limit and the request
\* has a non-empty context its last line is Additional context: followed by
\* the whole context; the message of a request with an empty or absent
\* context has no line starting with Additional context: .
C16_ContextLineUnlessTrimmed ==
    \A j \in 1..Len(provider_calls) :
        LET r == requests[provider_calls[j].request]
            user == provider_calls[j].user
            lines == splitlines(user)
        IN  /\ Len(user) <= prompt_length_limit
            /\ (HasContext(r) /\ Len(user) < prompt_length_limit)
                   => /\ lines # <<>>
                      /\ lines[Len(lines)] = AdditionalContext \o r.context.val
            /\ ~HasContext(r)
                   => \A i \in 1..Len(lines) : ~IsContextLine(lines[i])

C16_Witness ==
    \E j \in 1..Len(provider_calls) :
        LET r == requests[provider_calls[j].request]
            lines == splitlines(provider_calls[j].user)
        IN  /\ r.context = Str(ContextTest)
            /\ r.source = Str(SourceTest)
            /\ Len(provider_calls[j].user) < prompt_length_limit
            /\ lines[Len(lines)] = AdditionalContext \o ContextTest

ProviderFailed(i) ==
    /\ CallsFor(i) # {}
    /\ requests[i].result \notin {"awaiting", "returned"}

\* C17: every request of DocAutoGenerator.generate whose provider call
\* failed ended with GenerationError, whatever the provider raised.
C17_SingleFailureKind ==
    \A i \in 1..Len(requests) :
        ProviderFailed(i) => requests[i].result = "GenerationError"

BuiltPrompt(r) == r.source.type = "str" /\ r.source.val # <<>>

\* C26: the prompt built for a request is never longer than
\* prompt_length_limit; when the joined lines are longer the prompt is their
\* first prompt_length_limit characters and the warning was logged, otherwise
\* it is the joined lines and nothing was logged; a request whose token count
\* leaves the response reserve has a provider call carrying that prompt.
C26_PromptWithinLimit ==
    \A i \in 1..Len(requests) :
        LET r == requests[i]
            full == Join(prompt_lines(r.source.val, r.context))
        IN  BuiltPrompt(r) =>
              /\ Len(r.prompt) <= prompt_length_limit
              /\ IF Len(full) > prompt_length_limit
                 THEN /\ r.prompt = SubSeq(full, 1, prompt_length_limit)
                      /\ r.warned
                 ELSE r.prompt = full /\ ~r.warned
              /\ r.tokens <= max_context - 5000
                     => \E j \in CallsFor(i) :
                            provider_calls[j].user = r.prompt

C26_Witness ==
    \E i \in 1..Len(requests) :
        LET r == requests[i]
        IN  /\ r.source = Str(SourceTest)
            /\ Len(r.prompt) = prompt_length_limit
            /\ r.warned
            /\ r.result = "returned"
            /\ \E j \in CallsFor(i) : provider_calls[j].user = r.prompt

\* C30: every max_context from 1 up is accepted, and when max_context is at
\* most 5000 no provider call is ever made: every call of generate on a
\* non-empty source ended with the ValueError of the budget check.
C30_SmallContextNeverCalls ==
    /\ max_context >= 1
    /\ max_context <= 5000 =>
          /\ provider_calls = <<>>
          /\ \A i \in 1..Len(requests) :
                 BuiltPrompt(requests[i]) =>
                     requests[i].result =
                         "ValueError: Prompt exceeds max_context limit."

C30_Witness ==
    /\ max_context = 5000
    /\ provider_calls = <<>>
    /\ Len(requests) = MaxRequests
    /\ \A i \in 1..Len(requests) :
           /\ BuiltPrompt(requests[i])
           /\ requests[i].result =
                  "ValueError: Prompt exceeds max_context limit."

-----------------------------------------------------------------------------
\* Properties of DocuGen.generate (specification SpecDocu)

DocuCallsFor(i) ==
    {j \in 1..Len(docu_provider_calls) : docu_provider_calls[j].request = i}

Ended(r) == r.state \in {"returned", "raised"}

\* C18: every call of generate with the empty string as source has ended
\* with a ValueError, and no provider call was made for it.
C18_EmptySourceRejected ==
    \A i \in 1..Len(docu_requests) :
        docu_requests[i].source = Str(<<>>) =>
            /\ DocuCallsFor(i) = {}
            /\ Ended(docu_requests[i])
                   => docu_requests[i].raised.type = "ValueError"

\* C19: every call of generate whose prompt is longer than max_context
\* has ended with the ValueError prompt is too long, and no provider call
\* was made for it.
C19_TooLongRejected ==
    \A i \in 1..Len(docu_requests) :
        LET r == docu_requests[i]
        IN  Len(Join(prompt_lines(r.source.val, r.context))) > docu_max_context
                => /\ DocuCallsFor(i) = {}
                   /\ r.raised = Exception("ValueError", "prompt is too long")

\* C20: every call of generate in which a sanitizer that is not fail-silent
\* failed has ended with the ValueError Sanitizer failed.
C20_SanitizerErrorPropagates ==
    \A i \in 1..Len(docu_requests) :
        LET r == docu_requests[i]
        IN  (Ended(r) /\ r.cause = "ValueError: Sanitizer failed")
                => r.raised = Exception("ValueError", "Sanitizer failed")

\* C21: with the default constraints, the default sanitizers and the
\* default max_context, every call of generate on a non-empty source that
\* is over and whose provider call did not fail returned a non-empty
\* string.
C21_DefaultConstraintsGenerate ==
    (/\ docu_constraints = NoList
     /\ docu_chain = llm_response_sanitizers
     /\ docu_max_context = 16384)
        => \A i \in 1..Len(docu_requests) :
               LET r == docu_requests[i]
               IN  (/\ r.source.val # <<>>
                    /\ Ended(r)
                    /\ r.cause # "Exception: API Error")
                       => /\ r.state = "returned"
                          /\ r.value # <<>>

-----------------------------------------------------------------------------
\* Properties of DocAutoCLI.run and resolve_config (specification SpecCfg)

Given(x) == x.type # "NoneType"

\* the value the command line gives, or else the preset's
Override(cli, preset_value) == IF Given(cli) THEN cli ELSE preset_value

ExpectedConfig(args) ==
    LET p == PresetOptions(args.preset)
    IN  [base_url |-> Override(args.base_url, p.base_url),
         api_key |-> Override(args.api_key, p.api_key),
         ai_model |-> Override(args.ai_model, p.ai_model),
         max_context |-> Override(args.max_context, p.max_context),
         constraints |-> Override(args.constraints, default_constraints)]

IsValidConfig(c) ==
    /\ APIConfig(c.base_url, c.api_key) = NoException
    /\ GenerationConfig(c.ai_model, c.max_context, c.constraints)
           = NoException

ResolveOver == cfg_pc \notin {"start", "parsed"} /\ cfg_args.paths_valid

\* C22: for every preset and every command line whose values, put over the
\* preset's, make a valid configuration, resolve_config returned the
\* configuration that has the command line's value where one was given and
\* the preset's value elsewhere.
C22_CliOverridesPreset ==
    (/\ ResolveOver
     /\ cfg_args.preset \in presets
     /\ IsValidConfig(ExpectedConfig(cfg_args)))
        => /\ cfg_pc # "returned_1"
           /\ cfg_config = ExpectedConfig(cfg_args)

\* what the command line and the preset together leave wrong
ConfigError(args) ==
    \/ ~args.paths_valid
    \/ /\ ~Given(args.api_key)
       /\ args.preset \in presets => ~Given(PresetOptions(args.preset).api_key)
    \/ /\ Given(args.base_url)
       /\ \/ urlparse(args.base_url.val).scheme = ""
          \/ urlparse(args.base_url.val).netloc = ""
    \/ Given(args.constraints) /\ args.constraints.val = <<>>
    \/ Given(args.max_context) /\ args.max_context.val < 1

\* C23: a run whose command line has a configuration error never enters the
\* file loop, and when it is over it has returned 1.
C23_ConfigErrorIsFatal ==
    ConfigError(cfg_args) =>
        /\ cfg_pc \notin {"process_files", "returned_0"}
        /\ cfg_pc = "returned_1" => cfg_error # NoException

====
